---- MODULE Spec2Model ----
(***************************************************************************)
(* Model of tools/generate_blog.py: the blog generator that reads the      *)
(* Markdown posts of blog/posts, writes one article page per parsed post   *)
(* into blog/articles and splices the summary cards into blog.html.        *)
(*                                                                         *)
(* Text is modelled as a sequence of lexemes.  A lexeme is a run of        *)
(* characters that the program's string operations treat as a unit: a      *)
(* template token such as {{title}}, the opening tag or the closing        *)
(* sequence of the listing's marker region, a backslash escape of a        *)
(* regular-expression replacement template, or an opaque run of ordinary   *)
(* text.  The empty string is the empty sequence.                          *)
(***************************************************************************)
EXTENDS Integers, Sequences, FiniteSets, TLC

VARIABLES
    pc,          \* position of main(): "start", "parse", "parsed", "generate",
                 \* "listing", or an outcome "done", "exit1", "exception"
    fs_posts,    \* blog/posts: file stem -> source document
    dir_order,   \* the order in which POSTS_DIR.glob("*.md") yields the files
    template,    \* blog/template.html: its text, or Missing
    blog_html,   \* blog.html: its text, or Missing
    articles,    \* blog/articles: file stem -> text of <stem>.html
    md_files,    \* main(): md_files
    idx,         \* main(): position of the running for loop (1-based)
    posts,       \* main(): posts
    clock,       \* the wall clock read by datetime.now()
    stdout,      \* what has been printed: warnings, errors, and the name of
                 \* an exception that ended the run, each with the file it
                 \* is about
    run,         \* number of the current invocation of the script
    listing0,    \* blog.html as it was when the current invocation started
    first        \* the output files as the previous invocation left them

vars == <<pc, fs_posts, dir_order, template, blog_html, articles, md_files,
          idx, posts, clock, stdout, run, listing0, first>>

(***************************************************************************)
(* Bounds of the model.                                                    *)
(***************************************************************************)
MaxFiles == 2      \* at most this many *.md files in blog/posts
MaxTick == 2       \* the clock takes the times of day 0 .. MaxTick

(***************************************************************************)
(* Generic helpers on sequences.                                           *)
(***************************************************************************)
Range(s) == {s[i] : i \in 1..Len(s)}

RECURSIVE Flatten(_)
\* Concatenation of a sequence of texts.
Flatten(ss) == IF ss = <<>> THEN <<>> ELSE Head(ss) \o Flatten(Tail(ss))

RECURSIVE Join(_, _)
\* sep.join(ss) on texts.
Join(ss, sep) ==
    IF ss = <<>> THEN <<>>
    ELSE IF Len(ss) = 1 THEN Head(ss)
    ELSE Head(ss) \o sep \o Join(Tail(ss), sep)

\* str.replace(old, new): every occurrence of the lexeme old becomes new.
Replace(s, old, new) ==
    Flatten([i \in 1..Len(s) |-> IF s[i] = old THEN new ELSE <<s[i]>>])

Missing == <<"<no such file>">>

(***************************************************************************)
(* Calendar dates and date-times.  A date is <<year, month, day>>; a       *)
(* datetime is [ymd |-> date, t |-> time of day].                          *)
(***************************************************************************)
DayOld == <<2025, 12, 31>>
DayDoc == <<2026, 2, 24>>
DayNow == <<2026, 3, 5>>
Days == {DayOld, DayDoc, DayNow}
Ticks == 0..MaxTick

MonthName == <<"January", "February", "March", "April", "May", "June", "July",
               "August", "September", "October", "November", "December">>

\* datetime.__lt__ on naive values: lexicographic on year, month, day, time.
DateTimeLess(a, b) ==
    \/ a.ymd[1] < b.ymd[1]
    \/ a.ymd[1] = b.ymd[1] /\ a.ymd[2] < b.ymd[2]
    \/ a.ymd[1] = b.ymd[1] /\ a.ymd[2] = b.ymd[2] /\ a.ymd[3] < b.ymd[3]
    \/ a.ymd = b.ymd /\ a.t < b.t

\* date.strftime('%B %d, %Y'): full month name, day padded to two digits, year.
strftime(dt) ==
    MonthName[dt.ymd[2]] \o " "
        \o (IF dt.ymd[3] < 10 THEN "0" ELSE "") \o ToString(dt.ymd[3])
        \o ", " \o ToString(dt.ymd[1])

(***************************************************************************)
(* Source documents.  A document is described by what the frontmatter      *)
(* regular expression and the YAML parser make of it:                      *)
(*   delim : the text starts with the ---, block, --- delimiter pair       *)
(*   yaml  : what the block is to yaml.safe_load: "error" (YAMLError),     *)
(*           "null" (empty block), "scalar", "list" or "map"               *)
(*   keys  : the keys of the mapping                                       *)
(*   title, date, tags, excerpt, image : the values as written             *)
(*   body  : the Markdown after the frontmatter: its lexemes and the       *)
(*           number of whitespace-separated words in it                    *)
(* A date is written in one of the forms                                   *)
(*   "plain"     date: 2026-02-24            (the documented form)         *)
(*   "quoted"    date: "2026-02-24"                                        *)
(*   "timestamp" date: 2026-02-24 10:00:00                                 *)
(*   "word"      date: soon                                                *)
(*   "int"       date: 20260224                                            *)
(***************************************************************************)
DateForms == {"plain", "quoted", "timestamp", "word", "int"}

\* The YAML scalar resolver and constructors on the value of the date key:
\* the Python type of the value handed to parse_markdown_file.
YamlDateType(src) ==
    CASE src.form = "plain" -> "date"          \* datetime.date
      [] src.form = "timestamp" -> "datetime"  \* datetime.datetime
      [] src.form = "quoted" -> "str"
      [] src.form = "word" -> "str"
      [] src.form = "int" -> "int"

\* yaml.safe_load on the frontmatter block: the Python type of the result.
YamlLoadType(doc) ==
    CASE doc.yaml = "null" -> "NoneType"
      [] doc.yaml = "scalar" -> "str"
      [] doc.yaml = "list" -> "list"
      [] doc.yaml = "map" -> "dict"
      [] doc.yaml = "error" -> "YAMLError"

\* frontmatter.get(key, default)
Get(doc, key, default) ==
    IF key \in doc.keys THEN doc[key] ELSE default

\* markdown.Markdown(extensions).convert(md_content): the body as a paragraph.
MarkdownConvert(body) ==
    IF body.lex = <<>> THEN <<>> ELSE <<"<p>">> \o body.lex \o <<"</p>">>

WordsPerMinute == 200

\* Python's round() on word_count / 200: to nearest, ties to the even integer.
RoundHalfEven(n, d) ==
    LET q == n \div d
        r == n % d
    IN  IF 2 * r < d THEN q
        ELSE IF 2 * r > d THEN q + 1
        ELSE IF q % 2 = 0 THEN q ELSE q + 1

Max(a, b) == IF a >= b THEN a ELSE b

ReadingTime(word_count) == Max(1, RoundHalfEven(word_count, WordsPerMinute))

NoPost ==
    [title |-> <<>>, date |-> [ymd |-> DayOld, t |-> 0], date_formatted |-> "",
     tags |-> <<>>, excerpt |-> <<>>, image |-> <<>>, content |-> <<>>,
     reading_time |-> 0, slug |-> ""]

\* datetime.strptime(text, '%Y-%m-%d') on the text of a str value: the text
\* of a quoted date matches the pattern and gives midnight of that day; any
\* other text raises ValueError.
strptime(src) ==
    IF src.form = "quoted"
    THEN [date |-> [ymd |-> src.ymd, t |-> 0], raised |-> FALSE]
    ELSE [date |-> [ymd |-> src.ymd, t |-> 0], raised |-> TRUE]

\* The date branch of parse_markdown_file: the datetime of the post, whether
\* strptime raised ValueError, and whether datetime.now() was read.
ParseDate(doc, now) ==
    IF "date" \notin doc.keys
    THEN [date |-> now, raised |-> FALSE, usedNow |-> TRUE]
    ELSE LET src == doc.date
             ty == YamlDateType(src)
         IN  IF ty = "str"
             THEN [date |-> strptime(src).date, raised |-> strptime(src).raised,
                   usedNow |-> FALSE]
             ELSE IF ty = "datetime"
             THEN [date |-> [ymd |-> src.ymd, t |-> src.t], raised |-> FALSE,
                   usedNow |-> FALSE]
             ELSE [date |-> now, raised |-> FALSE, usedNow |-> TRUE]

\* parse_markdown_file(filepath) with the clock reading now.
\*   result "post"  : the returned dictionary is post
\*   result "none"  : None is returned after the warning warn
\*   result "raise" : the exception named by warn leaves the function
parse_markdown_file(slug, doc, now) ==
    IF ~doc.delim
    THEN [result |-> "none", warn |-> "Warning: No frontmatter found",
          post |-> NoPost, usedNow |-> FALSE]
    ELSE IF YamlLoadType(doc) = "YAMLError"
    THEN [result |-> "none", warn |-> "Error parsing frontmatter",
          post |-> NoPost, usedNow |-> FALSE]
    ELSE IF YamlLoadType(doc) # "dict"
    THEN [result |-> "raise", warn |-> "AttributeError",
          post |-> NoPost, usedNow |-> FALSE]
    ELSE LET d == ParseDate(doc, now)
         IN  IF d.raised
             THEN [result |-> "raise", warn |-> "ValueError",
                   post |-> NoPost, usedNow |-> FALSE]
             ELSE [result |-> "post", warn |-> "",
                   post |-> [title |-> Get(doc, "title", <<"Untitled">>),
                             date |-> d.date,
                             date_formatted |-> strftime(d.date),
                             tags |-> Get(doc, "tags", <<>>),
                             excerpt |-> Get(doc, "excerpt", <<>>),
                             image |-> Get(doc, "image", <<>>),
                             content |-> MarkdownConvert(doc.body),
                             reading_time |-> ReadingTime(doc.body.words),
                             slug |-> slug],
                   usedNow |-> d.usedNow]

(***************************************************************************)
(* The Article Renderer.                                                   *)
(***************************************************************************)
\* generate_tags_html(tags)
generate_tags_html(tags) ==
    Join([i \in 1..Len(tags) |->
            <<"<span class=\"article-tag\">", tags[i], "</span>">>], <<"\n">>)

RECURSIVE InsertDesc(_, _)
\* p placed after every element whose date is not older than p's.
InsertDesc(s, p) ==
    IF s = <<>> THEN <<p>>
    ELSE IF DateTimeLess(Head(s).date, p.date) THEN <<p>> \o s
    ELSE <<Head(s)>> \o InsertDesc(Tail(s), p)

RECURSIVE SortedDesc(_)
\* sorted(all_posts, key=lambda x: x['date'], reverse=True): newest first,
\* posts of equal date in their input order.
SortedDesc(s) ==
    IF s = <<>> THEN <<>>
    ELSE InsertDesc(SortedDesc(SubSeq(s, 1, Len(s) - 1)), s[Len(s)])

\* next((i for i, p in enumerate(sorted_posts) if p['slug'] == slug), -1),
\* a 0-based index.
CurrentIdx(sorted_posts, slug) ==
    LET hits == {i \in 1..Len(sorted_posts) : sorted_posts[i].slug = slug}
    IN  IF hits = {} THEN -1
        ELSE (CHOOSE i \in hits : \A j \in hits : i <= j) - 1

PrevLinkOpen(slug) ==
    "<a href=\"" \o slug \o ".html\" class=\"article-nav-link\">"

NextLinkOpen(slug) ==
    "<a href=\"" \o slug
        \o ".html\" class=\"article-nav-link\" style=\"text-align: right; margin-left: auto;\">"

\* prev_html of generate_article_html
PrevHtml(post, all_posts) ==
    LET sorted_posts == SortedDesc(all_posts)
        current_idx == CurrentIdx(sorted_posts, post.slug)
    IN  IF current_idx < Len(sorted_posts) - 1
        THEN LET prev_post == sorted_posts[current_idx + 2]
             IN  <<PrevLinkOpen(prev_post.slug), "Previous<span>">>
                     \o prev_post.title \o <<"</span></a>">>
        ELSE <<>>

\* next_html of generate_article_html
NextHtml(post, all_posts) ==
    LET sorted_posts == SortedDesc(all_posts)
        current_idx == CurrentIdx(sorted_posts, post.slug)
    IN  IF current_idx > 0
        THEN LET next_post == sorted_posts[current_idx]
             IN  <<NextLinkOpen(next_post.slug), "Next<span>">>
                     \o next_post.title \o <<"</span></a>">>
        ELSE <<>>

\* header_image_html of generate_article_html
HeaderImageHtml(post) ==
    IF post.image # <<>>
    THEN <<"<div class=\"article-header-image\"><img src=\"../../blog/images/">>
             \o post.image \o <<"\" alt=\"">> \o post.title \o <<"\"></div>">>
    ELSE <<>>

\* generate_article_html(post, template, all_posts): the nine replacements,
\* each applied to the result of the one before it.
generate_article_html(post, tmpl, all_posts) ==
    LET h1 == Replace(tmpl, "{{title}}", post.title)
        h2 == Replace(h1, "{{date}}", <<post.date_formatted>>)
        h3 == Replace(h2, "{{reading_time}}", <<ToString(post.reading_time)>>)
        h4 == Replace(h3, "{{tags_html}}", generate_tags_html(post.tags))
        h5 == Replace(h4, "{{excerpt}}", post.excerpt)
        h6 == Replace(h5, "{{content}}", post.content)
        h7 == Replace(h6, "{{prev_post}}", PrevHtml(post, all_posts))
        h8 == Replace(h7, "{{next_post}}", NextHtml(post, all_posts))
    IN  Replace(h8, "{{header_image}}", HeaderImageHtml(post))

(***************************************************************************)
(* The Listing Updater.                                                    *)
(***************************************************************************)
CardLinkOpen(slug) == "<a href=\"blog/articles/" \o slug \o ".html\">"

CardReadMoreOpen(slug) ==
    "<a href=\"blog/articles/" \o slug \o ".html\" class=\"blog-card-link\">"

\* generate_blog_card(post)
generate_blog_card(post) ==
    LET tags_html ==
            IF post.tags # <<>>
            THEN <<"<span class=\"blog-card-tag\">", post.tags[1], "</span>">>
            ELSE <<>>
        image_html ==
            IF post.image # <<>>
            THEN <<"<img src=\"blog/images/">> \o post.image \o <<"\" alt=\"">>
                     \o post.title \o <<"\" class=\"blog-card-image\">">>
            ELSE <<"<div class=\"blog-card-image-placeholder\"><svg/></div>">>
    IN  <<"<article class=\"blog-card\">">> \o image_html
            \o <<"<div class=\"blog-card-content\"><div class=\"blog-card-meta\">",
                 "<span class=\"blog-card-date\">", post.date_formatted, "</span>">>
            \o tags_html
            \o <<"</div><h2 class=\"blog-card-title\">", CardLinkOpen(post.slug)>>
            \o post.title
            \o <<"</a></h2><p class=\"blog-card-excerpt\">">>
            \o post.excerpt
            \o <<"</p>", CardReadMoreOpen(post.slug), "Read more</a></div></article>">>

NoPostsHtml == "<p class=\"no-posts\">No posts yet. Check back soon!</p>"

\* cards_html without the branch for an empty list of posts.
CardsHtml_NoPlaceholder(all_posts) ==
    LET sorted_posts == SortedDesc(all_posts)
    IN  Join([i \in 1..Len(sorted_posts) |->
                generate_blog_card(sorted_posts[i])], <<"\n">>)

\* cards_html of update_blog_listing
CardsHtml(all_posts) ==
    LET sorted_posts == SortedDesc(all_posts)
    IN  IF sorted_posts # <<>>
        THEN Join([i \in 1..Len(sorted_posts) |->
                     generate_blog_card(sorted_posts[i])], <<"\n">>)
        ELSE <<NoPostsHtml>>

\* The pattern of update_blog_listing: group 1 is the opening tag, group 2
\* the closing sequence </div>\s*</div>\s*</main>.
OpenTag == "<div class=\"blog-posts\" id=\"blog-posts\">"
CloseSeqs == {"</div></div></main>", "</div>\n        </div>\n    </main>"}

\* Backslash escapes of a replacement template of the re module.
EscGroup1 == "\\1"          \* \1
EscGroup2 == "\\2"          \* \2
EscBackslash == "\\\\"      \* \\
EscBad == "\\d"             \* \d: a backslash and an ASCII letter that is no escape

\* replacement of update_blog_listing: the f-string around cards_html.
Replacement(cards_html) ==
    <<EscGroup1, "\n">> \o cards_html \o <<"\n            ", EscGroup2>>

\* Whether compiling the replacement template raises re.error.
TemplateRaises(repl) == EscBad \in Range(repl)

\* The expansion of a compiled replacement template for one match.
Expand(repl, g1, g2) ==
    Flatten([i \in 1..Len(repl) |->
               CASE repl[i] = EscGroup1 -> <<g1>>
                 [] repl[i] = EscGroup2 -> <<g2>>
                 [] repl[i] = EscBackslash -> <<"\\">>
                 [] OTHER -> <<repl[i]>>])

\* The least index in from..Len(s) whose lexeme is in set, or 0.
FirstIn(s, from, set) ==
    LET hits == {i \in from..Len(s) : s[i] \in set}
    IN  IF hits = {} THEN 0 ELSE CHOOSE i \in hits : \A j \in hits : i <= j

RECURSIVE ReSub(_, _)
\* re.sub(pattern, replacement, s, flags=re.DOTALL): every non-overlapping
\* match, leftmost first, each from an opening tag to the first closing
\* sequence after it.
ReSub(repl, s) ==
    LET i == FirstIn(s, 1, {OpenTag})
        j == IF i = 0 THEN 0 ELSE FirstIn(s, i + 1, CloseSeqs)
    IN  IF i = 0 \/ j = 0 THEN s
        ELSE SubSeq(s, 1, i - 1) \o Expand(repl, s[i], s[j])
                 \o ReSub(repl, SubSeq(s, j + 1, Len(s)))

\* update_blog_listing with a missing blog.html ending the run.
update_blog_listing_Fatal(all_posts, blog) ==
    IF blog = Missing
    THEN [found |-> FALSE, raised |-> TRUE, file |-> blog]
    ELSE LET repl == Replacement(CardsHtml(all_posts))
         IN  IF TemplateRaises(repl)
             THEN [found |-> TRUE, raised |-> TRUE, file |-> blog]
             ELSE [found |-> TRUE, raised |-> FALSE, file |-> ReSub(repl, blog)]

\* update_blog_listing(posts) on the listing file blog:
\*   found  : BLOG_HTML_PATH.exists()
\*   raised : re.sub raised re.error
\*   file   : blog.html afterwards
update_blog_listing(all_posts, blog) ==
    IF blog = Missing
    THEN [found |-> FALSE, raised |-> FALSE, file |-> blog]
    ELSE LET repl == Replacement(CardsHtml(all_posts))
         IN  IF TemplateRaises(repl)
             THEN [found |-> TRUE, raised |-> TRUE, file |-> blog]
             ELSE [found |-> TRUE, raised |-> FALSE, file |-> ReSub(repl, blog)]

(***************************************************************************)
(* The files the script starts from.                                       *)
(***************************************************************************)
FileNames == <<"alpha", "beta", "gamma", "delta", "epsilon">>

AllKeys == {"title", "date", "tags", "excerpt", "image"}

NoDate == [form |-> "word", ymd |-> DayOld, t |-> 0]

\* A document with an empty mapping as frontmatter and an empty body.
BareDoc ==
    [delim |-> TRUE, yaml |-> "map", keys |-> {}, title |-> <<>>,
     date |-> NoDate, tags |-> <<>>, excerpt |-> <<>>, image |-> <<>>,
     body |-> [lex |-> <<>>, words |-> 0]]

\* A document in the documented format, all five keys given.
FullDoc(date) ==
    [delim |-> TRUE, yaml |-> "map", keys |-> AllKeys, title |-> <<"My Post">>,
     date |-> date, tags |-> <<"Azure", "Cloud">>,
     excerpt |-> <<"A brief description">>, image |-> <<"cover.jpg">>,
     body |-> [lex |-> <<"Some text">>, words |-> 500]]

DateSrcs ==
    {[form |-> f, ymd |-> d, t |-> 0] : f \in {"plain", "quoted"}, d \in Days}
        \cup {[form |-> "timestamp", ymd |-> DayNow, t |-> t] : t \in Ticks}
        \cup {[form |-> f, ymd |-> DayOld, t |-> 0] : f \in {"word", "int"}}

\* Documents that give no post: without the delimiter pair, or with a block
\* that is no mapping.
BrokenDocs ==
    {[BareDoc EXCEPT !.delim = FALSE]}
        \cup {[BareDoc EXCEPT !.yaml = y] : y \in {"error", "null", "scalar", "list"}}

PipelineDocs ==
    BrokenDocs \cup {FullDoc(d) : d \in DateSrcs}
        \cup {BareDoc, [FullDoc(NoDate) EXCEPT !.keys = AllKeys \ {"date"}]}

FullTemplate ==
    <<"<html><title>", "{{title}}", "</title>", "{{header_image}}", "<h1>",
      "{{title}}", "</h1>", "{{date}}", "{{reading_time}}", " min read",
      "{{tags_html}}", "{{excerpt}}", "{{content}}", "<nav>", "{{prev_post}}",
      "{{next_post}}", "</nav></html>">>

MarkedListing ==
    <<"<html><main><div>", OpenTag, "<article>an old card</article>",
      "</div>\n        </div>\n    </main>", "<footer/></html>">>

UnmarkedListing == <<"<html><main>", "</main><footer/></html>">>

NameSet(n) == {FileNames[i] : i \in 1..n}

InitWith(docs, templates, listings) ==
    /\ \E n \in 0..MaxFiles :
          /\ fs_posts \in [NameSet(n) -> docs]
          /\ dir_order = [i \in 1..n |-> FileNames[i]]
    /\ template \in templates
    /\ blog_html \in listings
    /\ listing0 = blog_html
    /\ articles = <<>>
    /\ pc = "start"
    /\ md_files = <<>>
    /\ idx = 1
    /\ posts = <<>>
    /\ clock = [ymd |-> DayNow, t |-> 0]
    /\ stdout = <<>>
    /\ run = 1
    /\ first = [articles |-> <<>>, blog_html |-> Missing]

Init ==
    InitWith(PipelineDocs, {FullTemplate, Missing},
             {MarkedListing, UnmarkedListing, Missing})

(***************************************************************************)
(* main(), one action per step.                                            *)
(***************************************************************************)
\* The call update_blog_listing(all_posts) made by main(): its effect on
\* blog.html, on the output and on where main() goes next.
CallUpdateListing(all_posts) ==
    LET r == update_blog_listing(all_posts, blog_html)
    IN  /\ blog_html' = r.file
        /\ stdout' = IF ~r.found
                     THEN Append(stdout, <<"Error: blog.html not found", "">>)
                     ELSE IF r.raised THEN Append(stdout, <<"re.error", "">>)
                     ELSE stdout
        /\ pc' = IF r.raised THEN "exception" ELSE "done"

\* ensure_directories(), read_template() and the glob; with no Markdown file
\* the listing is updated with no posts and main() returns.
Start ==
    /\ pc = "start"
    /\ IF template = Missing
       THEN /\ pc' = "exit1"
            /\ stdout' = Append(stdout, <<"Error: Template not found", "">>)
            /\ UNCHANGED <<blog_html, md_files>>
       ELSE /\ md_files' = dir_order
            /\ IF dir_order = <<>>
               THEN CallUpdateListing(<<>>)
               ELSE /\ pc' = "parse"
                    /\ UNCHANGED <<blog_html, stdout>>
    /\ idx' = 1
    /\ posts' = <<>>
    /\ UNCHANGED <<fs_posts, dir_order, template, articles, clock, run,
                   listing0, first>>

\* One iteration of the loop over md_files; the clock may advance meanwhile.
ParseFile ==
    /\ pc = "parse"
    /\ idx <= Len(md_files)
    /\ LET name == md_files[idx]
           r == parse_markdown_file(name, fs_posts[name], clock)
       IN  /\ posts' = IF r.result = "post" THEN Append(posts, r.post) ELSE posts
           /\ stdout' = IF r.result = "post" THEN stdout
                        ELSE Append(stdout, <<r.warn, name>>)
           /\ pc' = IF r.result = "raise" THEN "exception"
                    ELSE IF idx = Len(md_files) THEN "parsed"
                    ELSE "parse"
    /\ idx' = idx + 1
    /\ \E dt \in {0, 1} :
          /\ clock.t + dt <= MaxTick
          /\ clock' = [clock EXCEPT !.t = clock.t + dt]
    /\ UNCHANGED <<fs_posts, dir_order, template, blog_html, articles,
                   md_files, run, listing0, first>>

\* The test "if not posts" after the loop.
CheckPosts ==
    /\ pc = "parsed"
    /\ IF posts = <<>>
       THEN CallUpdateListing(<<>>)
       ELSE /\ pc' = "generate"
            /\ UNCHANGED <<blog_html, stdout>>
    /\ idx' = 1
    /\ UNCHANGED <<fs_posts, dir_order, template, articles, md_files, posts,
                   clock, run, listing0, first>>

\* One iteration of the loop that writes the article pages.
GenerateArticle ==
    /\ pc = "generate"
    /\ idx <= Len(posts)
    /\ LET post == posts[idx]
           article_html == generate_article_html(post, template, posts)
       IN  articles' = (post.slug :> article_html) @@ articles
    /\ idx' = idx + 1
    /\ pc' = IF idx = Len(posts) THEN "listing" ELSE "generate"
    /\ UNCHANGED <<fs_posts, dir_order, template, blog_html, md_files, posts,
                   clock, stdout, run, listing0, first>>

\* The final update_blog_listing(posts).
UpdateListing ==
    /\ pc = "listing"
    /\ CallUpdateListing(posts)
    /\ UNCHANGED <<fs_posts, dir_order, template, articles, md_files, idx,
                   posts, clock, run, listing0, first>>

Terminated == pc \in {"done", "exit1", "exception"}

\* The script is invoked again on the files the first invocation left, later
\* on the same day.
Rerun ==
    /\ Terminated
    /\ run = 1
    /\ run' = 2
    /\ first' = [articles |-> articles, blog_html |-> blog_html]
    /\ listing0' = blog_html
    /\ pc' = "start"
    /\ md_files' = <<>>
    /\ idx' = 1
    /\ posts' = <<>>
    /\ stdout' = <<>>
    /\ \E dt \in {0, 1} :
          /\ clock.t + dt <= MaxTick
          /\ clock' = [clock EXCEPT !.t = clock.t + dt]
    /\ UNCHANGED <<fs_posts, dir_order, template, blog_html, articles>>

(***************************************************************************)
(* Documents, templates and listings whose text holds template tokens,     *)
(* backslash escapes or the marker's closing sequence.                     *)
(***************************************************************************)
TextTitles ==
    {<<"My Post">>,
     <<"About ", "{{content}}">>,
     <<"Group ", EscGroup2>>,
     <<"Share ", EscBackslash, "server">>,
     <<"C:", EscBad, "ata">>,
     <<"Closing ", "</div></div></main>">>}

TextBodies ==
    {[lex |-> <<"Some text">>, words |-> 500],
     [lex |-> <<"Write ", "{{header_image}}", " in the template">>, words |-> 100]}

TextDocs ==
    {[FullDoc([form |-> "quoted", ymd |-> d, t |-> 0])
         EXCEPT !.title = ti, !.body = b] :
       ti \in TextTitles, b \in TextBodies, d \in {DayOld, DayDoc}}
        \cup {[BareDoc EXCEPT !.delim = FALSE]}

ShortTemplate == <<"<h1>", "{{title}}", "</h1>", "{{content}}">>

TightListing ==
    <<"<html><main><div>", OpenTag, "</div></div></main>", "<footer/></html>">>

InitText ==
    InitWith(TextDocs, {FullTemplate, ShortTemplate},
             {MarkedListing, TightListing, UnmarkedListing})

Next == Start \/ ParseFile \/ CheckPosts \/ GenerateArticle \/ UpdateListing

Spec == Init /\ [][Next]_vars

NextRerun == Next \/ Rerun

SpecRerun == InitText /\ [][NextRerun]_vars

(***************************************************************************)
(* Properties.                                                             *)
(***************************************************************************)
Names == DOMAIN fs_posts

\* A document whose frontmatter is a mapping and whose date, if given, is
\* written as a calendar date (plain or quoted) or as a timestamp.
ValidDoc(doc) ==
    /\ doc.delim
    /\ doc.yaml = "map"
    /\ "date" \in doc.keys => doc.date.form \in {"plain", "quoted", "timestamp"}

HasMetaDate(doc) ==
    /\ "date" \in doc.keys
    /\ doc.date.form \in {"plain", "quoted", "timestamp"}

\* The date written in the frontmatter, as a datetime.
MetaDate(doc) == [ymd |-> doc.date.ymd, t |-> doc.date.t]

LacksFrontmatter(doc) == ~doc.delim

\* The block between the delimiters is not structured key/value data.
UnparsableBlock(doc) == doc.delim /\ doc.yaml # "map"

PostNames == {posts[i].slug : i \in 1..Len(posts)}

\* The messages printed about the file called name.
MessagesAbout(name) ==
    {stdout[k][1] : k \in {k \in 1..Len(stdout) : stdout[k][2] = name}}

\* The posts a page links to as previous / as next.
PrevTargets(page) == {n \in Names : PrevLinkOpen(n) \in Range(page)}
NextTargets(page) == {n \in Names : NextLinkOpen(n) \in Range(page)}

\* Among the posts, those next to name by the dates of the frontmatter.
OlderNeighbour(name) ==
    LET older == {n \in PostNames :
                    DateTimeLess(MetaDate(fs_posts[n]), MetaDate(fs_posts[name]))}
    IN  {n \in older :
           \A m \in older : ~DateTimeLess(MetaDate(fs_posts[n]), MetaDate(fs_posts[m]))}

NewerNeighbour(name) ==
    LET newer == {n \in PostNames :
                    DateTimeLess(MetaDate(fs_posts[name]), MetaDate(fs_posts[n]))}
    IN  {n \in newer :
           \A m \in newer : ~DateTimeLess(MetaDate(fs_posts[m]), MetaDate(fs_posts[n]))}

DistinctMetaDates ==
    /\ \A n \in PostNames : HasMetaDate(fs_posts[n])
    /\ \A n, m \in PostNames :
          n # m => MetaDate(fs_posts[n]) # MetaDate(fs_posts[m])

\* C1: when the parsed posts have pairwise distinct frontmatter dates, the
\* page of every post links "previous" to the post with the greatest older
\* date and "next" to the post with the least newer date, and has no such
\* link where there is no such post.
C1_NeighboursFollowMetadataDates ==
    (pc = "done" /\ posts # <<>> /\ DistinctMetaDates) =>
        \A n \in PostNames :
            /\ n \in DOMAIN articles
            /\ PrevTargets(articles[n]) = OlderNeighbour(n)
            /\ NextTargets(articles[n]) = NewerNeighbour(n)

\* The same with every date given as quoted text or as a timestamp, which
\* the date branch takes over as written.
C1_NeighboursFollowTextDates ==
    (pc = "done" /\ posts # <<>> /\ DistinctMetaDates
        /\ \A n \in PostNames : fs_posts[n].date.form # "plain") =>
        \A n \in PostNames :
            /\ n \in DOMAIN articles
            /\ PrevTargets(articles[n]) = OlderNeighbour(n)
            /\ NextTargets(articles[n]) = NewerNeighbour(n)

\* C2: a post whose frontmatter gives the date as a calendar date, in
\* whatever representation the YAML parser hands it over, has that date, and
\* a document dated 2026-02-24 is displayed as "February 24, 2026".
C2_PostDateIsMetadataDate ==
    \A i \in 1..Len(posts) :
        LET doc == fs_posts[posts[i].slug]
        IN  HasMetaDate(doc) =>
                /\ posts[i].date.ymd = doc.date.ymd
                /\ doc.date.ymd = DayDoc =>
                       posts[i].date_formatted = "February 24, 2026"

ParseExceptions == {"AttributeError", "ValueError"}

C4_UnparsableBlockIsSkipped ==
    \A n \in Names :
        UnparsableBlock(fs_posts[n]) =>
            MessagesAbout(n) \subseteq {"Error parsing frontmatter"}

\* The number of positions of the text s that hold the lexeme x.
Count(s, x) == Cardinality({i \in 1..Len(s) : s[i] = x})

\* blog.html had exactly one marker region when the invocation started.
OneRegion(s) ==
    /\ Count(s, OpenTag) = 1
    /\ Cardinality({i \in 1..Len(s) : s[i] \in CloseSeqs}) = 1
    /\ FirstIn(s, 1, {OpenTag}) < FirstIn(s, 1, CloseSeqs)

\* The text s with the content of its one marker region replaced by inner,
\* set off by the line break and the indentation the updater writes.
WithRegion(s, inner) ==
    LET i == FirstIn(s, 1, {OpenTag})
        j == FirstIn(s, 1, CloseSeqs)
    IN  SubSeq(s, 1, i) \o <<"\n">> \o inner \o <<"\n            ">>
            \o SubSeq(s, j, Len(s))

\* C5: in a first run over documents each of which is valid or lacks the
\* frontmatter delimiters, at least one of them valid, the run completes,
\* no page and no card exists for a document without frontmatter, and every
\* valid document has its page and exactly one card.
C5_MissingFrontmatterIsExcluded ==
    (/\ run = 1
     /\ Terminated
     /\ template # Missing
     /\ listing0 # Missing /\ OneRegion(listing0)
     /\ \A n \in Names : ValidDoc(fs_posts[n]) \/ LacksFrontmatter(fs_posts[n])
     /\ \E n \in Names : ValidDoc(fs_posts[n])) =>
        /\ pc = "done"
        /\ \A n \in Names :
              IF LacksFrontmatter(fs_posts[n])
              THEN /\ n \notin DOMAIN articles
                   /\ Count(blog_html, CardLinkOpen(n)) = 0
              ELSE /\ n \in DOMAIN articles
                   /\ Count(blog_html, CardLinkOpen(n)) = 1

\* The date of the frontmatter is missing, or is text that is no YYYY-MM-DD.
DateMissingOrUnparsable(doc) ==
    /\ doc.delim
    /\ doc.yaml = "map"
    /\ "date" \notin doc.keys \/ doc.date.form = "word"

\* C6: a document with valid frontmatter whose date is missing or is text
\* that does not parse is not dropped and ends no run: it is taken up as a
\* post dated with the current date.
C6_BadDateDefaultsToNow ==
    \A n \in Names :
        DateMissingOrUnparsable(fs_posts[n]) =>
            /\ MessagesAbout(n) = {}
            /\ pc \in {"parsed", "generate", "listing", "done"} => n \in PostNames
            /\ \A i \in 1..Len(posts) :
                  posts[i].slug = n => posts[i].date.ymd = clock.ymd

\* Every document is skipped: it lacks the delimiters or the parser rejects it.
AllSkipped == \A n \in Names : ~fs_posts[n].delim \/ fs_posts[n].yaml = "error"

\* C7: when template and blog.html exist and no document gives a post, the
\* run completes, writes no article page, and the marker region of blog.html
\* holds the "no posts yet" message and no card.
C7_NoPostsGivesPlaceholder ==
    (Terminated /\ template # Missing /\ listing0 # Missing /\ AllSkipped) =>
        /\ pc = "done"
        /\ articles = <<>>
        /\ IF OneRegion(listing0)
           THEN blog_html = WithRegion(listing0, <<NoPostsHtml>>)
           ELSE blog_html = listing0
        /\ Count(blog_html, "<article class=\"blog-card\">") = 0

C7_Witness ==
    /\ pc = "done"
    /\ template # Missing
    /\ Names # {}
    /\ AllSkipped
    /\ OneRegion(listing0)
    /\ Count(blog_html, NoPostsHtml) = 1
    /\ blog_html # listing0

\* C8: the updater changes only the content of the marker region: when the
\* final update of a run has run, blog.html is the text the run started from
\* with the content of its one marker region replaced by the cards of the
\* posts as generated, and is that text unchanged when there is no region;
\* the update never raises.
C8_OnlyTheRegionChanges ==
    /\ (pc = "done" /\ listing0 # Missing) =>
          IF OneRegion(listing0)
          THEN blog_html = WithRegion(listing0, CardsHtml(posts))
          ELSE blog_html = listing0
    /\ pc = "exception" =>
          /\ stdout # <<>>
          /\ stdout[Len(stdout)][1] \in ParseExceptions

\* C9: when the second of two invocations over the same files has ended, the
\* article pages and blog.html are what the first invocation left.
C9_SecondRunChangesNothing ==
    (run = 2 /\ Terminated) =>
        /\ articles = first.articles
        /\ blog_html = first.blog_html

\* The value of a template token for a post.
TokenValue(tok, post, all_posts) ==
    CASE tok = "{{title}}" -> post.title
      [] tok = "{{date}}" -> <<post.date_formatted>>
      [] tok = "{{reading_time}}" -> <<ToString(post.reading_time)>>
      [] tok = "{{tags_html}}" -> generate_tags_html(post.tags)
      [] tok = "{{excerpt}}" -> post.excerpt
      [] tok = "{{content}}" -> post.content
      [] tok = "{{prev_post}}" -> PrevHtml(post, all_posts)
      [] tok = "{{next_post}}" -> NextHtml(post, all_posts)
      [] tok = "{{header_image}}" -> HeaderImageHtml(post)

Tokens ==
    {"{{title}}", "{{date}}", "{{reading_time}}", "{{tags_html}}", "{{excerpt}}",
     "{{content}}", "{{prev_post}}", "{{next_post}}", "{{header_image}}"}

\* The template with each of its own token occurrences replaced by the value
\* of the token, the values taken over verbatim.
SubstituteOnce(tmpl, post, all_posts) ==
    Flatten([i \in 1..Len(tmpl) |->
               IF tmpl[i] \in Tokens
               THEN TokenValue(tmpl[i], post, all_posts)
               ELSE <<tmpl[i]>>])

\* C10: every article page written in a run is the template with each
\* occurrence of a token in the template replaced by the value of the token,
\* and text brought in by a value is not substituted again.
C10_SubstitutionIsLiteral ==
    pc \in {"listing", "done"} =>
        \A i \in 1..Len(posts) :
            articles[posts[i].slug] = SubstituteOnce(template, posts[i], posts)

====
